---- MODULE Spec2Model ----
(***************************************************************************)
(* A model of the frame-tick crate: the Tick fixed-point time value, the   *)
(* rational FrameRate, the tick <-> frame and tick <-> timecode            *)
(* conversions, the scalar arithmetic and the tick iterators.              *)
(*                                                                         *)
(* The crate computes in i64, i128 and u32.  Those ranges lie beyond the   *)
(* model checker's native integers, so every program integer is held here  *)
(* as a sign and a magnitude, the magnitude a little-endian sequence of    *)
(* limbs in base Base with no leading zero limb.  The representation is    *)
(* canonical: two program integers are equal iff their records are equal.  *)
(***************************************************************************)
EXTENDS Integers, Sequences, FiniteSets, TLC

\* ------------------------------------------------------------------------
\* Unbounded integers (magnitudes)
\* ------------------------------------------------------------------------

Base == 100 * 100

Max2(a, b) == IF a >= b THEN a ELSE b

RECURSIVE MTrim(_)
MTrim(a) ==
    IF a = <<>> THEN a
    ELSE IF a[Len(a)] = 0 THEN MTrim(SubSeq(a, 1, Len(a) - 1)) ELSE a

MDigit(a, i) == IF i <= Len(a) THEN a[i] ELSE 0

RECURSIVE MAddFrom(_, _, _, _)
MAddFrom(a, b, i, c) ==
    IF i > Max2(Len(a), Len(b))
    THEN (IF c = 0 THEN <<>> ELSE <<c>>)
    ELSE LET s == MDigit(a, i) + MDigit(b, i) + c
         IN  <<s % Base>> \o MAddFrom(a, b, i + 1, s \div Base)

MAdd(a, b) == MAddFrom(a, b, 1, 0)

\* a - b for a >= b
RECURSIVE MSubFrom(_, _, _, _)
MSubFrom(a, b, i, br) ==
    IF i > Len(a) THEN <<>>
    ELSE LET d == a[i] - MDigit(b, i) - br
         IN  IF d < 0 THEN <<d + Base>> \o MSubFrom(a, b, i + 1, 1)
                      ELSE <<d>> \o MSubFrom(a, b, i + 1, 0)

MSub(a, b) == MTrim(MSubFrom(a, b, 1, 0))

RECURSIVE MCmpAt(_, _, _)
MCmpAt(a, b, i) ==
    IF i = 0 THEN 0
    ELSE IF a[i] < b[i] THEN -1
    ELSE IF a[i] > b[i] THEN 1
    ELSE MCmpAt(a, b, i - 1)

\* -1, 0 or 1 as a < b, a = b, a > b
MCmp(a, b) ==
    IF Len(a) < Len(b) THEN -1
    ELSE IF Len(a) > Len(b) THEN 1
    ELSE MCmpAt(a, b, Len(a))

RECURSIVE MMulSmallFrom(_, _, _, _)
MMulSmallFrom(a, k, i, c) ==
    IF i > Len(a)
    THEN (IF c = 0 THEN <<>> ELSE <<c>>)
    ELSE LET p == a[i] * k + c
         IN  <<p % Base>> \o MMulSmallFrom(a, k, i + 1, p \div Base)

\* a * k for one limb k
MMulSmall(a, k) == IF k = 0 THEN <<>> ELSE MMulSmallFrom(a, k, 1, 0)

MShift(a) == IF a = <<>> THEN a ELSE <<0>> \o a

RECURSIVE MMul(_, _)
MMul(a, b) ==
    IF a = <<>> \/ b = <<>> THEN <<>>
    ELSE MAdd(MMulSmall(a, b[1]), MShift(MMul(a, Tail(b))))

\* prepend a less significant limb d to the limbs q
MPush(d, q) == IF q = <<>> /\ d = 0 THEN <<>> ELSE <<d>> \o q

\* a \div k for one limb k # 0: short division from limb i down, with the
\* quotient limbs q and the remainder r of the limbs above i
RECURSIVE MShortDiv(_, _, _, _, _)
MShortDiv(a, k, i, q, r) ==
    IF i = 0 THEN q
    ELSE MShortDiv(a, k, i - 1,
                   MPush((r * Base + a[i]) \div k, q), (r * Base + a[i]) % k)

\* the quotient limb of cur by b, where b's top limb is at least Base \div 2
\* and cur < b * Base: the estimate from the two top limbs is at most 2 too
\* large (Knuth, TAOCP 4.3.1, Theorem B); the limb is the one that fits
MQuotLimb(cur, b) ==
    LET n    == Len(b)
        top2 == MDigit(cur, n + 1) * Base + MDigit(cur, n)
        est0 == top2 \div b[n]
        est  == IF est0 > Base - 1 THEN Base - 1 ELSE est0
    IN  CHOOSE d \in {e \in {est - 2, est - 1, est} : e >= 0} :
            /\ MCmp(MMulSmall(b, d), cur) <= 0
            /\ MCmp(MMulSmall(b, d + 1), cur) > 0

\* long division of a by the normalised b from limb i down, with the quotient
\* limbs q and the remainder r of the limbs above i
RECURSIVE MLongDiv(_, _, _, _, _)
MLongDiv(a, b, i, q, r) ==
    IF i = 0 THEN <<q, r>>
    ELSE LET cur == MPush(a[i], r)
             d   == MQuotLimb(cur, b)
         IN  MLongDiv(a, b, i - 1, MPush(d, q), MSub(cur, MMulSmall(b, d)))

\* <<quotient, remainder>> of a by b, b # 0: both are scaled by f so that b's
\* top limb is at least Base \div 2, which leaves the quotient unchanged and
\* scales the remainder by f
MDivMod(a, b) ==
    IF MCmp(a, b) < 0 THEN <<(<<>>), a>>
    ELSE LET f  == Base \div (b[Len(b)] + 1)
             af == MMulSmall(a, f)
             qr == MLongDiv(af, MMulSmall(b, f), Len(af), <<>>, <<>>)
         IN  <<qr[1], MShortDiv(qr[2], f, Len(qr[2]), <<>>, 0)>>

RECURSIVE MFromNat(_)
MFromNat(n) == IF n = 0 THEN <<>> ELSE <<n % Base>> \o MFromNat(n \div Base)

\* ------------------------------------------------------------------------
\* Signed integers
\* ------------------------------------------------------------------------

ZMake(neg, mag) == [neg |-> neg /\ mag # <<>>, mag |-> mag]

\* the program integer with the (small) value n
Z(n) == IF n < 0 THEN ZMake(TRUE, MFromNat(0 - n)) ELSE ZMake(FALSE, MFromNat(n))

ZIsZero(x) == x.mag = <<>>
ZNeg(x) == ZMake(~x.neg, x.mag)
ZAbs(x) == ZMake(FALSE, x.mag)

ZAdd(x, y) ==
    IF x.neg = y.neg THEN ZMake(x.neg, MAdd(x.mag, y.mag))
    ELSE IF MCmp(x.mag, y.mag) >= 0 THEN ZMake(x.neg, MSub(x.mag, y.mag))
    ELSE ZMake(y.neg, MSub(y.mag, x.mag))

ZSub(x, y) == ZAdd(x, ZNeg(y))

ZMul(x, y) == ZMake(x.neg # y.neg, MMul(x.mag, y.mag))

\* -1, 0 or 1
ZCmp(x, y) ==
    IF x.neg /\ ~y.neg THEN -1
    ELSE IF ~x.neg /\ y.neg THEN 1
    ELSE IF x.neg THEN MCmp(y.mag, x.mag)
    ELSE MCmp(x.mag, y.mag)

ZLt(x, y) == ZCmp(x, y) < 0
ZLe(x, y) == ZCmp(x, y) <= 0

\* Rust's integer division: the quotient truncated toward zero
ZDiv(x, y) == ZMake(x.neg # y.neg, MDivMod(x.mag, y.mag)[1])

\* Rust's integer remainder: the sign of the dividend
ZRem(x, y) == ZMake(x.neg, MDivMod(x.mag, y.mag)[2])

\* the remainder in 0 .. y-1, for y > 0
ZMod(x, y) ==
    LET r == ZRem(x, y) IN IF r.neg THEN ZAdd(r, y) ELSE r

\* the native value of a small magnitude
RECURSIVE MToNat(_)
MToNat(a) == IF a = <<>> THEN 0 ELSE a[1] + Base * MToNat(Tail(a))

RECURSIVE ZPow2(_)
ZPow2(n) ==
    IF n <= 30 THEN Z(2 ^ n)
    ELSE ZMul(ZPow2(n \div 2), ZPow2(n - n \div 2))

\* ------------------------------------------------------------------------
\* Rust's fixed-width integer types
\* ------------------------------------------------------------------------

IntType(name, bits, signed) == [name |-> name, bits |-> bits, signed |-> signed]

U8    == IntType("u8", 8, FALSE)
U16   == IntType("u16", 16, FALSE)
U32   == IntType("u32", 32, FALSE)
U64   == IntType("u64", 64, FALSE)
U128  == IntType("u128", 128, FALSE)
I8    == IntType("i8", 8, TRUE)
I16   == IntType("i16", 16, TRUE)
I32   == IntType("i32", 32, TRUE)
I64   == IntType("i64", 64, TRUE)
I128  == IntType("i128", 128, TRUE)
\* usize and isize on a 64-bit target
USIZE == IntType("usize", 64, FALSE)
ISIZE == IntType("isize", 64, TRUE)

TwoPow == [n \in {7, 8, 15, 16, 31, 32, 63, 64, 127, 128} |-> ZPow2(n)]

TMin(t) == IF t.signed THEN ZNeg(TwoPow[t.bits - 1]) ELSE Z(0)
TMax(t) == ZSub(TwoPow[IF t.signed THEN t.bits - 1 ELSE t.bits], Z(1))

I64_MIN == TMin(I64)
I64_MAX == TMax(I64)
U32_MAX == TMax(U32)

Fits(t, x) == ZLe(TMin(t), x) /\ ZLe(x, TMax(t))

\* `x as t`: the value modulo 2^bits, read in two's complement when t is signed
Cast(t, x) ==
    IF Fits(t, x) THEN x
    ELSE LET m == ZMod(x, TwoPow[t.bits])
         IN  IF ZLe(m, TMax(t)) THEN m ELSE ZSub(m, TwoPow[t.bits])

\* The outcome of an operation: a value, or a panic.
Ok(v) == [panic |-> FALSE, val |-> v]
Panic == [panic |-> TRUE, val |-> Z(0)]

\* The outcomes of an arithmetic operation of type t with the exact result
\* x: when x is out of t's range the operation panics in a build with
\* overflow checks (the debug profile) and wraps in one without (release).
Checked(t, x) == IF Fits(t, x) THEN {Ok(x)} ELSE {Panic, Ok(Cast(t, x))}

Some(v) == [some |-> TRUE, val |-> v]

\* ------------------------------------------------------------------------
\* FrameRate
\* ------------------------------------------------------------------------

None == [some |-> FALSE]

\* NonZeroU32::new
NonZeroU32_new(x) == IF ZIsZero(x) THEN None ELSE Some(x)

\* FrameRate::new with the denominator left unchecked (a mutant)
FrameRate_new_unchecked_den(num, den) ==
    IF ~NonZeroU32_new(num).some THEN None
    ELSE Some([num |-> num, den |-> den])

\* FrameRate::new: each `?` returns None from the function
FrameRate_new(num, den) ==
    IF ~NonZeroU32_new(num).some THEN None
    ELSE IF ~NonZeroU32_new(den).some THEN None
    ELSE Some([num |-> NonZeroU32_new(num).val, den |-> NonZeroU32_new(den).val])

FrameRate_from_int(fps) == FrameRate_new(fps, Z(1))

\* impl From<NonZeroU32> for FrameRate; fps is a NonZeroU32
FrameRate_from(fps) == [num |-> fps, den |-> Z(1)]

FILM      == [num |-> Z(24),    den |-> Z(1)]
FPS_30    == [num |-> Z(30),    den |-> Z(1)]
FPS_60    == [num |-> Z(60),    den |-> Z(1)]
NTSC      == [num |-> Z(30000), den |-> Z(1001)]
NTSC_FILM == [num |-> Z(24000), den |-> Z(1001)]
NTSC_HIGH == [num |-> Z(60000), den |-> Z(1001)]
PAL       == [num |-> Z(25),    den |-> Z(1)]
PAL_HIGH  == [num |-> Z(50),    den |-> Z(1)]

NamedRates == {FILM, FPS_30, FPS_60, NTSC, NTSC_FILM, NTSC_HIGH, PAL, PAL_HIGH}

\* ------------------------------------------------------------------------
\* Tick
\* ------------------------------------------------------------------------

TICKS_PER_SECOND == Z(3603600)

\* Nominal fps for h:m:s:f display (ceiling of actual fps).
nominal_fps(frame_rate) ==
    ZDiv(ZSub(ZAdd(frame_rate.num, frame_rate.den), Z(1)), frame_rate.den)

\* total_frames without the + divisor / 2 of the rounding (a mutant)
total_frames_truncating(self, frame_rate) ==
    LET divisor == ZMul(TICKS_PER_SECOND, frame_rate.den)
    IN  Cast(I64, ZDiv(ZMul(self, frame_rate.num), divisor))

\* to_timecode's total_frames: the i128 quotient, cast to i64
total_frames(self, frame_rate) ==
    LET divisor == ZMul(TICKS_PER_SECOND, frame_rate.den)
    IN  Cast(I64, ZDiv(ZAdd(ZMul(self, frame_rate.num), ZDiv(divisor, Z(2))),
                       divisor))

\* Tick::to_timecode: <<hours, minutes, seconds, frames>>
to_timecode(self, frame_rate) ==
    LET total         == total_frames(self, frame_rate)
        nominal       == nominal_fps(frame_rate)
        frames        == ZRem(total, nominal)
        total_seconds == ZDiv(total, nominal)
        seconds       == ZRem(total_seconds, Z(60))
        total_minutes == ZDiv(total_seconds, Z(60))
        minutes       == ZRem(total_minutes, Z(60))
        hours         == ZDiv(total_minutes, Z(60))
    IN  <<hours, minutes, seconds, frames>>

\* Tick::from_timecode: the set of outcomes.  total_frames is computed in
\* i64, so each product and sum is an overflow-checked operation; the tick
\* count is computed in i128 and cast to i64.
from_timecode(hours, minutes, seconds, frames, frame_rate) ==
    LET nominal == nominal_fps(frame_rate)
        h1      == ZMul(hours, Z(3600))
        h2      == ZMul(h1, nominal)
        m1      == ZMul(minutes, Z(60))
        m2      == ZMul(m1, nominal)
        s1      == ZMul(seconds, nominal)
        a1      == ZAdd(h2, m2)
        a2      == ZAdd(a1, s1)
        total   == ZAdd(a2, frames)
        ticks(t) == Cast(I64, ZDiv(ZMul(ZMul(t, TICKS_PER_SECOND), frame_rate.den),
                                   frame_rate.num))
    IN  IF \A x \in {h1, h2, m1, m2, s1, a1, a2, total} : Fits(I64, x)
        THEN {Ok(ticks(total))}
        ELSE {Panic, Ok(ticks(Cast(I64, total)))}

\* from_frames with the product taken in i64 instead of i128 (a mutant)
from_frames_narrow(frames, frame_rate) ==
    Cast(I64, ZDiv(Cast(I64, ZMul(frames, TICKS_PER_SECOND)), frame_rate))

\* FrameRateConversion<FramesPerSec>::to_frames: i128 arithmetic, cast to i64
to_frames(self, frame_rate) ==
    Cast(I64, ZDiv(ZMul(self, frame_rate), TICKS_PER_SECOND))

\* FrameRateConversion<FramesPerSec>::from_frames
from_frames(frames, frame_rate) ==
    Cast(I64, ZDiv(ZMul(frames, TICKS_PER_SECOND), frame_rate))

\* impl Mul<$ty> for Tick (impl_mul_div_int): the outcomes of self * rhs.
\* self.0 is cast to $ty, the product is overflow-checked $ty arithmetic,
\* and the result is cast to i64.
Tick_mul(self, ty, rhs) ==
    {IF o.panic THEN Panic ELSE Ok(Cast(I64, o.val)) :
        o \in Checked(ty, ZMul(Cast(ty, self), rhs))}

\* impl Div<$ty> for Tick (impl_mul_div_int): the outcomes of self / rhs.
\* Division by zero and the signed MIN / -1 panic in every build.
Tick_div(self, ty, rhs) ==
    IF ZIsZero(rhs) THEN {Panic}
    ELSE IF ty.signed /\ Cast(ty, self) = TMin(ty) /\ rhs = Z(-1) THEN {Panic}
    ELSE {Ok(Cast(I64, ZDiv(Cast(ty, self), rhs)))}

\* A call of an iterator: the cursor it leaves and the item it returns.
Step(cursor, item) == [panic |-> FALSE, cursor |-> cursor, item |-> item]
StepPanic == [panic |-> TRUE, cursor |-> Z(0), item |-> None]

\* TickIter::next with the end test of next_back (a mutant)
TickIter_next_min_test(self) ==
    IF I64_MIN = self THEN {Step(self, None)}
    ELSE {IF o.panic THEN StepPanic ELSE Step(o.val, Some(self)) :
             o \in Checked(I64, ZAdd(self, Z(1)))}

\* impl Iterator for TickIter: the outcomes of next() at cursor self.0
TickIter_next(self) ==
    IF I64_MAX = self THEN {Step(self, None)}
    ELSE {IF o.panic THEN StepPanic ELSE Step(o.val, Some(self)) :
             o \in Checked(I64, ZAdd(self, Z(1)))}

\* impl DoubleEndedIterator for TickIter: the outcomes of next_back()
TickIter_next_back(self) ==
    IF I64_MIN = self THEN {Step(self, None)}
    ELSE {IF o.panic THEN StepPanic ELSE Step(o.val, Some(o.val)) :
             o \in Checked(I64, ZSub(self, Z(1)))}

\* impl Iterator for TickRevIter: the outcomes of next().  The cursor is
\* decremented before the end test.
TickRevIter_next(self) ==
    {IF o.panic THEN StepPanic
     ELSE IF I64_MIN = o.val THEN Step(o.val, None)
     ELSE Step(o.val, Some(self)) :
        o \in Checked(I64, ZSub(self, Z(1)))}

\* ------------------------------------------------------------------------
\* f64 arithmetic, on the values where it is exact
\* ------------------------------------------------------------------------

\* m / 2^k with k = 0 or m odd
RECURSIVE Dyadic(_, _)
Dyadic(m, k) ==
    IF k > 0 /\ ZIsZero(ZRem(m, Z(2))) THEN Dyadic(ZDiv(m, Z(2)), k - 1)
    ELSE [m |-> m, k |-> k]

\* An f64 is held as [ok, m, k], the value m / 2^k.  Every such value with
\* |m| <= 2^53 is an f64, and an IEEE operation whose exact result is such a
\* value returns it.  ok is FALSE when the exact result of the operation, or
\* of one before it, is not of this form (IEEE would round it); the runs
\* below draw their inputs so that every operation is exact.
F64(ok, x) == [ok |-> ok /\ ZLe(ZAbs(x.m), ZPow2(53)), m |-> x.m, k |-> x.k]

Inexact == [ok |-> FALSE, m |-> Z(0), k |-> 0]

\* `n as f64` for an integer n
F64_from_int(n) == F64(TRUE, Dyadic(n, 0))

\* a * b
F64_mul(a, b) == F64(a.ok /\ b.ok, Dyadic(ZMul(a.m, b.m), a.k + b.k))

\* <<o, t>> with x = o * 2^t and o odd, for x # 0
RECURSIVE OddPart(_, _)
OddPart(x, t) ==
    IF ZIsZero(ZRem(x, Z(2))) THEN OddPart(ZDiv(x, Z(2)), t + 1) ELSE <<x, t>>

\* m * 2^(-e)
F64_scaled(ok, m, e) ==
    IF e >= 0 THEN F64(ok, Dyadic(m, e))
    ELSE F64(ok, Dyadic(ZMul(m, ZPow2(0 - e)), 0))

\* a / (o * 2^t / 2^b.k), o odd
F64_div_odd(a, b, ot) ==
    IF ~ZIsZero(ZRem(a.m, ot[1])) THEN Inexact
    ELSE F64_scaled(a.ok /\ b.ok, ZDiv(a.m, ot[1]), a.k + ot[2] - b.k)

\* a / b, b # 0
F64_div(a, b) == F64_div_odd(a, b, OddPart(b.m, 0))

\* a + b, both scaled to 2^(-k)
F64_add_at(a, b, k) ==
    F64(a.ok /\ b.ok,
        Dyadic(ZAdd(ZMul(a.m, ZPow2(k - a.k)), ZMul(b.m, ZPow2(k - b.k))), k))

\* a + b
F64_add(a, b) == F64_add_at(a, b, Max2(a.k, b.k))

\* n held to the range of i64
Saturate(n) ==
    IF ZLt(n, I64_MIN) THEN I64_MIN ELSE IF ZLt(I64_MAX, n) THEN I64_MAX ELSE n

\* `x as i64` for a float x: truncated toward zero, saturating
F64_as_i64(x) == Saturate(ZDiv(x.m, ZPow2(x.k)))

\* q with the sign given
Signed(neg, q) == IF neg THEN ZNeg(q) ELSE q

\* the integer nearest to n / d, halves away from zero, for d > 0
RoundHalfAway(n, d) ==
    Signed(n.neg, ZDiv(ZAdd(ZMul(Z(2), ZAbs(n)), d), ZMul(Z(2), d)))

\* lo or lo + 1, for twice the remainder twor of a division by d: the
\* nearer, the even one on a tie
NearerEven(lo, twor, d) ==
    IF ZLt(d, twor) \/ (twor = d /\ ~ZIsZero(ZRem(lo, Z(2))))
    THEN ZAdd(lo, Z(1)) ELSE lo

\* the integer nearest to n / d, halves to the even neighbour, for d > 0
RoundHalfEven(n, d) ==
    Signed(n.neg, NearerEven(ZDiv(ZAbs(n), d), ZMul(Z(2), ZRem(ZAbs(n), d)), d))

\* f64::round: the nearest integer, halves away from zero
F64_round(x) == [ok |-> x.ok, m |-> RoundHalfAway(x.m, ZPow2(x.k)), k |-> 0]

\* a rounding to the nearest integer with halves to even (a mutant of
\* f64::round)
F64_round_ties_even(x) ==
    [ok |-> x.ok, m |-> RoundHalfEven(x.m, ZPow2(x.k)), k |-> 0]

Half == [ok |-> TRUE, m |-> Z(1), k |-> 1]
MinusHalf == [ok |-> TRUE, m |-> Z(-1), k |-> 1]

\* the round! macro without the std feature: (value + 0.5) as i64 for
\* value >= 0.0 and (value - 0.5) as i64 otherwise
round_no_std(value) == F64_add(value, IF value.m.neg THEN MinusHalf ELSE Half)

\* the round! macro: with the std feature value.round() as i64; the results
\* over the two builds
round_macro(value) ==
    [exact |-> value.ok /\ round_no_std(value).ok,
     vals  |-> {F64_as_i64(F64_round(value)), F64_as_i64(round_no_std(value))}]

\* the .round() of the float frame-rate conversions
frames_round(x) == F64_round(x)

\* `value as _` where an i64 is expected
as_i64(x) == [exact |-> x.ok, val |-> F64_as_i64(x)]

\* FrameRateConversion<FramesPerSecF32 / F64>::to_frames: the f32 rate is
\* widened to f64, which is exact
to_frames_float(self, frame_rate) ==
    as_i64(frames_round(F64_div(F64_mul(F64_from_int(self), frame_rate),
                                F64_from_int(TICKS_PER_SECOND))))

\* FrameRateConversion<FramesPerSecF32 / F64>::from_frames
from_frames_float(frames, frame_rate) ==
    as_i64(frames_round(F64_div(F64_mul(F64_from_int(frames),
                                        F64_from_int(TICKS_PER_SECOND)),
                                frame_rate)))

\* impl Mul<f64> for Tick (impl_mul_div_float): the results over the builds
Tick_mul_f64(self, rhs) == round_macro(F64_mul(F64_from_int(self), rhs))

\* impl From<f64> for Tick: the results over the builds
Tick_from_f64(value) == round_macro(value)

\* Tick::from_secs
from_secs(secs) == as_i64(F64_mul(secs, F64_from_int(TICKS_PER_SECOND)))

\* Tick::to_secs
to_secs(self) == F64_div(F64_from_int(self), F64_from_int(TICKS_PER_SECOND))

\* ------------------------------------------------------------------------
\* std::time::Duration
\* ------------------------------------------------------------------------

NANOS_PER_SEC == Z(1000000000)

\* a Duration: whole seconds (u64) and nanoseconds below NANOS_PER_SEC (u32)
Duration(secs, nanos) == [secs |-> secs, nanos |-> nanos]

\* Duration::as_secs_f64: secs as f64 + nanos as f64 / NANOS_PER_SEC as f64
as_secs_f64(d) ==
    F64_add(F64_from_int(d.secs),
            F64_div(F64_from_int(d.nanos), F64_from_int(NANOS_PER_SEC)))

\* the Duration of whole seconds and nanos / two_k nanoseconds; a panic
\* when the seconds are beyond u64
Duration_of(ok, whole, nanos, two_k) ==
    IF ~Fits(U64, whole) THEN [exact |-> ok, out |-> Panic]
    ELSE [exact |-> ok /\ ZIsZero(ZRem(nanos, two_k)),
          out   |-> Ok(Duration(whole, ZDiv(nanos, two_k)))]

\* Duration::from_secs_f64: panics when secs is negative or beyond u64
\* seconds; else the whole seconds and the fraction in nanoseconds
Duration_from_secs_f64(secs) ==
    IF secs.m.neg THEN [exact |-> secs.ok, out |-> Panic]
    ELSE Duration_of(secs.ok, ZDiv(secs.m, ZPow2(secs.k)),
                     ZMul(ZRem(secs.m, ZPow2(secs.k)), NANOS_PER_SEC),
                     ZPow2(secs.k))

\* impl From<Duration> for Tick
Tick_from_duration(duration) == from_secs(as_secs_f64(duration))

\* impl From<Tick> for Duration
Duration_from_tick(t) == Duration_from_secs_f64(to_secs(t))

\* ------------------------------------------------------------------------
\* State
\* ------------------------------------------------------------------------

VARIABLES
    pc,     \* where the run stands: "start", "tick", "timecode", ..., "panic"
    rate,   \* the frame rate the run converts at
    call,   \* the call that made the value under conversion, with its arguments
    tick,   \* the raw count of the Tick the run holds
    ret,    \* what the last conversion returned
    iter    \* the iterator the run drives

vars == <<pc, rate, call, tick, ret, iter>>

NoRate == [num |-> Z(0), den |-> Z(0)]
NoCall == [op |-> "none", args |-> <<>>]
NoRet  == <<>>
NoIter == [kind |-> "none"]

\* ------------------------------------------------------------------------
\* Timecode conversion
\* ------------------------------------------------------------------------

\* hours drawn are -1 .. MaxHours and BigHours, whose tick count at 24 fps
\* (about 1.3 * 10^19) is beyond i64
MaxHours == 1
BigHours == Z(1000000000)
HourSamples   == {Z(h) : h \in -1 .. MaxHours} \cup {BigHours}
MinuteSamples == {Z(0), Z(59)}
SecondSamples == {Z(0), Z(59)}
\* every frame number of a second: 0 .. nominal_fps - 1 (at most 60 here)
FrameSamples(r) == {Z(f) : f \in 0 .. MToNat(nominal_fps(r).mag) - 1}

\* rates built by FrameRate::new next to the named ones: 1 fps, 0.5 fps,
\* 1.5 fps, and 17 fps, which does not divide TICKS_PER_SECOND
CustomRates == {FrameRate_new(Z(p[1]), Z(p[2])).val :
                    p \in {<<1, 1>>, <<1, 2>>, <<3, 2>>, <<17, 1>>}}
TimecodeRates == NamedRates \cup CustomRates

\* raw ticks drawn for Tick::new: half frames at 24 fps (75075 ticks) and
\* their neighbours, whole seconds, and the ends of i64
MaxHalfFrames == 3
TickSamples ==
    {ZAdd(ZMul(Z(k), Z(75075)), Z(j)) : k \in -MaxHalfFrames .. MaxHalfFrames,
                                        j \in {-1, 0, 1}}
    \cup {ZMul(Z(k), TICKS_PER_SECOND) : k \in {-3, -2, -1, 1, 2, 3}}
    \cup {I64_MIN, I64_MAX}

InitTimecode ==
    /\ pc = "start"
    /\ rate \in TimecodeRates
    /\ call = NoCall
    /\ tick = Z(0)
    /\ ret = NoRet
    /\ iter = NoIter

\* Tick::new(value)
Tick_new ==
    /\ pc = "start"
    /\ \E value \in TickSamples :
          /\ call' = [op |-> "new", args |-> <<value>>]
          /\ tick' = value
    /\ pc' = "tick"
    /\ UNCHANGED <<rate, ret, iter>>

\* Tick::from_timecode(hours, minutes, seconds, frames, rate)
Tick_from_timecode ==
    /\ pc = "start"
    /\ \E hours \in HourSamples, minutes \in MinuteSamples,
          seconds \in SecondSamples, frames \in FrameSamples(rate) :
          /\ call' = [op |-> "from_timecode",
                      args |-> <<hours, minutes, seconds, frames>>]
          /\ \E o \in from_timecode(hours, minutes, seconds, frames, rate) :
                IF o.panic
                THEN pc' = "panic" /\ UNCHANGED tick
                ELSE pc' = "tick" /\ tick' = o.val
    /\ UNCHANGED <<rate, ret, iter>>

\* tick.to_timecode(rate)
Tick_to_timecode ==
    /\ pc = "tick"
    /\ pc' = "timecode"
    /\ ret' = to_timecode(tick, rate)
    /\ UNCHANGED <<rate, call, tick, iter>>

NextTimecode ==
    \/ Tick_new
    \/ Tick_from_timecode
    \/ Tick_to_timecode

SpecTimecode == InitTimecode /\ [][NextTimecode]_vars

\* The rates claim C1 names.
C1Rates == {FILM, PAL, FPS_30, FPS_60, NTSC_FILM, NTSC, NTSC_HIGH}

\* <<h, m, s, f>> is a valid timecode at rate r
ValidTimecode(tc, r) ==
    /\ ~tc[1].neg
    /\ ~tc[2].neg /\ ZLt(tc[2], Z(60))
    /\ ~tc[3].neg /\ ZLt(tc[3], Z(60))
    /\ ~tc[4].neg /\ ZLt(tc[4], nominal_fps(r))

\* the exact tick count of the timecode tc at rate r, no width applied
TimecodeTicks(tc, r) ==
    LET n     == nominal_fps(r)
        total == ZAdd(ZAdd(ZMul(ZMul(tc[1], Z(3600)), n), ZMul(ZMul(tc[2], Z(60)), n)),
                      ZAdd(ZMul(tc[3], n), tc[4]))
    IN  ZDiv(ZMul(ZMul(total, TICKS_PER_SECOND), r.den), r.num)

RoundTripped ==
    /\ pc = "timecode"
    /\ call.op = "from_timecode"
    /\ rate \in C1Rates
    /\ ValidTimecode(call.args, rate)

\* C1 as stated: at each named rate, every valid timecode (h, m, s, f), for
\* every h >= 0, comes back unchanged from from_timecode then to_timecode.
C1_RoundTripEveryHour == RoundTripped => ret = call.args

\* C1, amended: at each named rate, every valid timecode (h, m, s, f) whose
\* tick count total_frames * TICKS_PER_SECOND * den / num fits in i64 comes
\* back unchanged from from_timecode then to_timecode, although the first
\* truncates and the second rounds to the nearest frame.
C1_RoundTrip ==
    (RoundTripped /\ Fits(I64, TimecodeTicks(call.args, rate)))
        => ret = call.args

\* 1:59:59:29 at NTSC, whose tick count 25971745679.88 from_timecode
\* truncates, has made the round trip
C1_Witness ==
    /\ RoundTripped
    /\ rate = NTSC
    /\ call.args = <<Z(1), Z(59), Z(59), Z(29)>>
    /\ tick = ZAdd(ZMul(Z(25971), Z(1000000)), Z(745679))
    /\ ret = call.args

\* C5: the total frame count to_timecode decomposes is the integer nearest
\* to raw * num / (TICKS_PER_SECOND * den), halves away from zero, for every
\* tick, negative ones included.
C5_NearestFrame ==
    pc = "timecode" =>
        total_frames(tick, rate) =
            RoundHalfAway(ZMul(tick, rate.num), ZMul(TICKS_PER_SECOND, rate.den))

\* the frame count h*3600*n + m*60*n + s*n + f of the timecode tc at the
\* nominal rate n
TimecodeFrames(tc, n) ==
    ZAdd(ZAdd(ZMul(ZMul(tc[1], Z(3600)), n), ZMul(ZMul(tc[2], Z(60)), n)),
         ZAdd(ZMul(tc[3], n), tc[4]))

\* C11: for every tick (negative ones included) and every rate, the
\* (h, m, s, f) that to_timecode returns has 0 <= f < nominal_fps,
\* 0 <= s < 60, 0 <= m < 60, and h*3600*nominal_fps + m*60*nominal_fps +
\* s*nominal_fps + f is the rounded total frame count.
C11_ValidTimecode ==
    pc = "timecode" =>
        /\ ~ret[4].neg /\ ZLt(ret[4], nominal_fps(rate))
        /\ ~ret[3].neg /\ ZLt(ret[3], Z(60))
        /\ ~ret[2].neg /\ ZLt(ret[2], Z(60))
        /\ TimecodeFrames(ret, nominal_fps(rate)) = total_frames(tick, rate)

\* ------------------------------------------------------------------------
\* FrameRate construction
\* ------------------------------------------------------------------------

\* the integer rates the crate documentation lists as exactly representable
DocIntRates == {Z(n) : n \in {6, 8, 12, 24, 25, 30, 48, 50, 60, 72, 90, 120, 144, 240}}

\* the rates the crate documentation lists: the integer ones and NTSC's
DocRates == {FrameRate_from(n) : n \in DocIntRates} \cup {NTSC_FILM, NTSC, NTSC_HIGH}

\* u32 arguments drawn: 0 .. MaxSmallU32, the documented rates, the NTSC
\* numerators and denominator, and u32::MAX
MaxSmallU32 == 2
U32Samples ==
    {Z(n) : n \in 0 .. MaxSmallU32} \cup DocIntRates
    \cup {Z(1001), Z(24000), Z(30000), Z(60000), U32_MAX}

InitRate ==
    /\ pc = "start"
    /\ rate = NoRate
    /\ call = NoCall
    /\ tick = Z(0)
    /\ ret = NoRet
    /\ iter = NoIter

\* the Option<FrameRate> o was returned: rate holds its value, if any
Returned(o) ==
    /\ ret' = o
    /\ rate' = IF o.some THEN o.val ELSE NoRate
    /\ pc' = "rate"
    /\ UNCHANGED <<tick, iter>>

\* FrameRate::new(num, den)
New ==
    /\ pc = "start"
    /\ \E num \in U32Samples, den \in U32Samples :
          /\ call' = [op |-> "new", args |-> <<num, den>>]
          /\ Returned(FrameRate_new(num, den))

\* FrameRate::from_int(fps)
FromInt ==
    /\ pc = "start"
    /\ \E fps \in U32Samples :
          /\ call' = [op |-> "from_int", args |-> <<fps>>]
          /\ Returned(FrameRate_from_int(fps))

\* FrameRate::from(fps), fps a NonZeroU32 (so never zero)
FromNonZeroU32 ==
    /\ pc = "start"
    /\ \E fps \in {x \in U32Samples : NonZeroU32_new(x).some} :
          /\ call' = [op |-> "from", args |-> <<fps>>]
          /\ Returned(Some(FrameRate_from(NonZeroU32_new(fps).val)))

\* one of the associated constants FrameRate::FILM, ...
NamedConstant ==
    /\ pc = "start"
    /\ \E r \in NamedRates :
          /\ call' = [op |-> "const", args |-> <<r>>]
          /\ Returned(Some(r))

NextRate ==
    \/ New
    \/ FromInt
    \/ FromNonZeroU32
    \/ NamedConstant

SpecRate == InitRate /\ [][NextRate]_vars

\* C8: FrameRate::new(num, den) returns None exactly when num == 0 or
\* den == 0 and otherwise a rate with these num and den; from_int(fps) is
\* new(fps, 1); so no FrameRate made by new, from_int, the named constants
\* or From<NonZeroU32> has a zero numerator or denominator.
C8_Construction ==
    pc = "rate" =>
        /\ call.op = "new" =>
              /\ ~ret.some <=> (ZIsZero(call.args[1]) \/ ZIsZero(call.args[2]))
              /\ ret.some => ret.val = [num |-> call.args[1], den |-> call.args[2]]
        /\ call.op = "from_int" =>
              /\ ~ret.some <=> ZIsZero(call.args[1])
              /\ ret.some => ret.val = [num |-> call.args[1], den |-> Z(1)]
        /\ ret.some =>
              /\ rate = ret.val
              /\ ~ZIsZero(rate.num) /\ ~ZIsZero(rate.den)

\* new(30000, 0) has returned None
C8_Witness ==
    /\ pc = "rate"
    /\ call = [op |-> "new", args |-> <<Z(30000), Z(0)>>]
    /\ ret = None

\* a whole number of ticks makes one frame at rate r
WholeTicksPerFrame(r) == ZIsZero(ZRem(ZMul(TICKS_PER_SECOND, r.den), r.num))

\* C3: at every rate the crate documentation lists (the integer rates 6 to
\* 240 and NTSC's 24000/1001, 30000/1001, 60000/1001) one frame lasts a whole
\* number of ticks: TICKS_PER_SECOND * den is divisible by num.
C3_WholeTicks ==
    (pc = "rate" /\ ret.some /\ rate \in DocRates) => WholeTicksPerFrame(rate)

\* ------------------------------------------------------------------------
\* Frame-number conversion at integer rates
\* ------------------------------------------------------------------------

\* rates drawn: the tested ones, 1 and TICKS_PER_SECOND itself, and 17, 32
\* and 2997, which do not divide TICKS_PER_SECOND
FpsSamples ==
    {Z(n) : n \in {24, 25, 30, 60, 120}} \cup {Z(1), TICKS_PER_SECOND}
    \cup {Z(17), Z(32), Z(2997)}

\* frame counts drawn: -MaxFrames .. MaxFrames; the largest count whose
\* ticks fit in i64 at every rate, twice that, and their negatives; and the
\* ends of i64
MaxFrames == 4
FrameCountSamples ==
    LET big == ZDiv(I64_MAX, TICKS_PER_SECOND)
    IN  {Z(n) : n \in -MaxFrames .. MaxFrames}
        \cup {big, ZNeg(big), ZMul(Z(2), big), ZMul(Z(-2), big), I64_MIN, I64_MAX}

\* ticks drawn at rate r: the multiples -MaxAligned .. MaxAligned of
\* TICKS_PER_SECOND / r, the tick after each, the last multiple below
\* i64::MAX, and the ends of i64
MaxAligned == 3
AlignedTickSamples(r) ==
    LET step == ZDiv(TICKS_PER_SECOND, r)
    IN  {ZAdd(ZMul(Z(k), step), Z(j)) : k \in -MaxAligned .. MaxAligned, j \in {0, 1}}
        \cup {ZMul(ZDiv(I64_MAX, step), step), I64_MIN, I64_MAX}

InitFrames ==
    /\ pc = "start"
    /\ rate \in FpsSamples
    /\ call = NoCall
    /\ tick = Z(0)
    /\ ret = NoRet
    /\ iter = NoIter

\* Tick::new(value), value on or next to a frame boundary
Tick_new_aligned ==
    /\ pc = "start"
    /\ \E value \in AlignedTickSamples(rate) :
          /\ call' = [op |-> "new", args |-> <<value>>]
          /\ tick' = value
    /\ pc' = "tick"
    /\ UNCHANGED <<rate, ret, iter>>

\* Tick::from_frames(frames, rate)
Tick_from_frames ==
    /\ pc = "start"
    /\ \E frames \in FrameCountSamples :
          /\ call' = [op |-> "from_frames", args |-> <<frames>>]
          /\ tick' = from_frames(frames, rate)
    /\ pc' = "tick"
    /\ UNCHANGED <<rate, ret, iter>>

\* tick.to_frames(rate)
Tick_to_frames ==
    /\ pc = "tick"
    /\ pc' = "frames"
    /\ ret' = to_frames(tick, rate)
    /\ UNCHANGED <<rate, call, tick, iter>>

\* Tick::from_frames(frames, rate) of the frame count to_frames returned
Tick_from_frames_back ==
    /\ pc = "frames"
    /\ pc' = "tick again"
    /\ tick' = from_frames(ret, rate)
    /\ UNCHANGED <<rate, call, ret, iter>>

NextFrames ==
    \/ Tick_new_aligned
    \/ Tick_from_frames
    \/ Tick_to_frames
    \/ Tick_from_frames_back

SpecFrames == InitFrames /\ [][NextFrames]_vars

\* r evenly divides TICKS_PER_SECOND
DividesTicks(r) == ZIsZero(ZRem(TICKS_PER_SECOND, r))

\* C2: for every integer rate r that evenly divides TICKS_PER_SECOND and
\* every frame count n, negative ones included, whose tick value fits in
\* i64, from_frames(n, r) is n * TICKS_PER_SECOND / r and to_frames brings
\* it back to n; and every tick that is a whole multiple of
\* TICKS_PER_SECOND / r comes back unchanged from to_frames then from_frames.
C2_FrameRoundTrip ==
    DividesTicks(rate) =>
        /\ (/\ pc = "frames"
            /\ call.op = "from_frames"
            /\ Fits(I64, ZMul(call.args[1], ZDiv(TICKS_PER_SECOND, rate))))
           => /\ tick = ZMul(call.args[1], ZDiv(TICKS_PER_SECOND, rate))
              /\ ret = call.args[1]
        /\ (/\ pc = "tick again"
            /\ call.op = "new"
            /\ ZIsZero(ZRem(call.args[1], ZDiv(TICKS_PER_SECOND, rate))))
           => tick = call.args[1]

\* -3 frames at 25 fps, -432432 ticks, have come back as -3 frames
C2_Witness ==
    /\ pc = "frames"
    /\ rate = Z(25)
    /\ call = [op |-> "from_frames", args |-> <<Z(-3)>>]
    /\ tick = Z(-432432)
    /\ ret = Z(-3)

\* ------------------------------------------------------------------------
\* Scaling by an integer
\* ------------------------------------------------------------------------

ScalarTypes == {U8, U16, U32, U64, U128, USIZE, I8, I16, I32, I64, I128, ISIZE}

\* scalars drawn of type ty: -MaxScalar .. MaxScalar and the ends of ty's
\* range, where ty holds them
MaxScalar == 3
ScalarSamples(ty) ==
    {k \in {Z(n) : n \in -MaxScalar .. MaxScalar} : Fits(ty, k)}
    \cup {TMin(ty), TMax(ty)}

\* ticks drawn: small ones of both signs, ones beyond u8 and u16, the ends
\* of i64
ScaleTickSamples ==
    {Z(n) : n \in {-70000, -300, -4, -1, 0, 1, 4, 100, 300, 70000}}
    \cup {I64_MIN, I64_MAX}

InitScale ==
    /\ pc = "start"
    /\ rate = NoRate
    /\ call = NoCall
    /\ tick \in ScaleTickSamples
    /\ ret = NoRet
    /\ iter = NoIter

\* the outcome o of a scaling: on a panic the run ends, else the product or
\* quotient is the result
Scaled(o) ==
    /\ ret' = o
    /\ pc' = IF o.panic THEN "panic" ELSE "scaled"
    /\ UNCHANGED <<rate, tick, iter>>

\* tick * rhs
Mul ==
    /\ pc = "start"
    /\ \E ty \in ScalarTypes : \E rhs \in ScalarSamples(ty) :
          /\ call' = [op |-> "mul", args |-> <<ty, rhs>>]
          /\ \E o \in Tick_mul(tick, ty, rhs) : Scaled(o)

\* tick / rhs
Div ==
    /\ pc = "start"
    /\ \E ty \in ScalarTypes : \E rhs \in ScalarSamples(ty) :
          /\ call' = [op |-> "div", args |-> <<ty, rhs>>]
          /\ \E o \in Tick_div(tick, ty, rhs) : Scaled(o)

NextScale ==
    \/ Mul
    \/ Div

SpecScale == InitScale /\ [][NextScale]_vars

\* the exact product or quotient (truncated toward zero) of the call
ExactScaled ==
    IF call.op = "mul" THEN ZMul(tick, call.args[2]) ELSE ZDiv(tick, call.args[2])

\* C4: for every integer scalar type, every tick (negative ones and ones
\* beyond the scalar type's range included) and every non-zero scalar k,
\* t * k is Tick(t.raw() * k) and t / k is Tick(t.raw() / k truncated toward
\* zero), whenever that result fits in i64.
C4_ExactScaling ==
    (/\ pc \in {"scaled", "panic"}
     /\ ~ZIsZero(call.args[2])
     /\ Fits(I64, ExactScaled))
        => ret = Ok(ExactScaled)

\* ------------------------------------------------------------------------
\* Enumeration
\* ------------------------------------------------------------------------

\* start values drawn: up to MaxFromEnd from either end of i64, and -1, 0
MaxFromEnd == 2
IterStarts ==
    {ZSub(I64_MAX, Z(j)) : j \in 0 .. MaxFromEnd}
    \cup {ZAdd(I64_MIN, Z(j)) : j \in 0 .. MaxFromEnd}
    \cup {Z(-1), Z(0)}

\* calls made on one iterator
MaxCalls == 4

\* iter holds the iterator's kind and its field (cursor), and of the calls
\* made on it: how many of next (nexts) and next_back (backs), and whether
\* a call before the last one returned None (ended_before) or any call did
\* (ended), and the values next has returned (front) and next_back has
\* (back).  tick is the value the iterator was started at.
InitIter ==
    /\ pc = "iter"
    /\ rate = NoRate
    /\ call = NoCall
    /\ tick \in IterStarts
    /\ ret = NoRet
    /\ \E kind \in {"TickIter", "TickRevIter"} :
          iter = [kind |-> kind, cursor |-> tick, nexts |-> 0, backs |-> 0,
                  ended_before |-> FALSE, ended |-> FALSE,
                  front |-> {}, back |-> {}]

\* the call op with outcome o has been made on iter
Called(op, o) ==
    /\ call' = [op |-> op, args |-> <<>>]
    /\ pc' = IF o.panic THEN "panic" ELSE "iter"
    /\ ret' = o.item
    /\ iter' = [iter EXCEPT
                  !.cursor       = IF o.panic THEN @ ELSE o.cursor,
                  !.nexts        = IF op = "next" THEN @ + 1 ELSE @,
                  !.backs        = IF op = "next_back" THEN @ + 1 ELSE @,
                  !.ended_before = iter.ended,
                  !.ended        = @ \/ (~o.panic /\ ~o.item.some),
                  !.front        = IF op = "next" /\ o.item.some
                                   THEN @ \cup {o.item.val} ELSE @,
                  !.back         = IF op = "next_back" /\ o.item.some
                                   THEN @ \cup {o.item.val} ELSE @]
    /\ UNCHANGED <<rate, tick>>

CanCall == pc = "iter" /\ iter.nexts + iter.backs < MaxCalls

\* TickIter::next
Next_TickIter ==
    /\ CanCall
    /\ iter.kind = "TickIter"
    /\ \E o \in TickIter_next(iter.cursor) : Called("next", o)

\* TickIter::next_back
NextBack_TickIter ==
    /\ CanCall
    /\ iter.kind = "TickIter"
    /\ \E o \in TickIter_next_back(iter.cursor) : Called("next_back", o)

\* TickRevIter::next
Next_TickRevIter ==
    /\ CanCall
    /\ iter.kind = "TickRevIter"
    /\ \E o \in TickRevIter_next(iter.cursor) : Called("next", o)

NextIter ==
    \/ Next_TickIter
    \/ NextBack_TickIter
    \/ Next_TickRevIter

SpecIter == InitIter /\ [][NextIter]_vars

\* next() alone has been called on a TickIter, at least once
OnlyNext == iter.kind = "TickIter" /\ iter.backs = 0 /\ iter.nexts >= 1

\* C6: on Tick(v).into_iter() the k-th call of next() returns v + k - 1 as
\* long as that is below i64::MAX; the call made with the cursor at i64::MAX
\* returns None, as does every later call; i64::MAX is never produced and
\* the cursor never overflows.
C6_Forward ==
    /\ iter.kind = "TickIter" => pc # "panic" /\ Fits(I64, iter.cursor)
    /\ OnlyNext =>
          LET item == ZAdd(tick, Z(iter.nexts - 1))
          IN  /\ ret = IF ZLt(item, I64_MAX) THEN Some(item) ELSE None
              /\ ret # Some(I64_MAX)
              /\ iter.ended_before => ret = None

\* started at i64::MAX - 1, next() has returned i64::MAX - 1, None and None
C6_Witness ==
    /\ OnlyNext
    /\ tick = ZSub(I64_MAX, Z(1))
    /\ iter.nexts = 3
    /\ iter.ended_before
    /\ ret = None
    /\ iter.cursor = I64_MAX

\* C7: a TickRevIter started at v produces v, v-1, v-2, ..., one less per
\* call of next(), returns None upon reaching i64::MIN and from then on,
\* and no call decrements the cursor below i64::MIN.
C7_Reverse ==
    iter.kind = "TickRevIter" =>
        /\ pc # "panic"
        /\ Fits(I64, ZSub(tick, Z(iter.nexts)))
        /\ iter.nexts >= 1 =>
              /\ ret.some => ret.val = ZSub(tick, Z(iter.nexts - 1))
              /\ iter.ended_before => ret = None

\* C12: in any interleaving of next() and next_back() on one TickIter, no
\* value is returned by both a next() call and a next_back() call, and
\* next_back() on an iterator started at v returns values of the range
\* [v, i64::MAX) that next() enumerates.
C12_DoubleEnded ==
    iter.kind = "TickIter" =>
        /\ iter.front \cap iter.back = {}
        /\ \A x \in iter.back : ZLe(tick, x) /\ ZLt(x, I64_MAX)

\* ------------------------------------------------------------------------
\* Frame conversions at a floating-point rate
\* ------------------------------------------------------------------------

FloatTypes == {"f32", "f64"}

\* rates drawn: 1/4, 1/2, 3/2, 5/2, 15/2 and 24, 25, 30, 32, 60 frames per
\* second, all of them values of f32 and of f64
FloatRateSamples ==
    {F64(TRUE, Dyadic(Z(n), 2)) : n \in {1, 2, 6, 10, 30}}
    \cup {F64_from_int(Z(n)) : n \in {24, 25, 30, 32, 60}}

\* ticks drawn: the multiples of a sixteenth of a second, of both signs,
\* for which the conversions' f64 operations are exact
MaxSixteenths == 32
SixteenthTicks ==
    {ZMul(Z(j), ZDiv(TICKS_PER_SECOND, Z(16))) : j \in -MaxSixteenths .. MaxSixteenths}

MaxFloatFrames == 3
FloatFrameSamples == {Z(n) : n \in -MaxFloatFrames .. MaxFloatFrames}

InitFloat ==
    /\ pc = "start"
    /\ rate \in [ty : FloatTypes, val : FloatRateSamples]
    /\ call = NoCall
    /\ tick = Z(0)
    /\ ret = NoRet
    /\ iter = NoIter

\* Tick::new(t) with t a multiple of a sixteenth of a second
Tick_new_sixteenth ==
    /\ pc = "start"
    /\ \E t \in SixteenthTicks :
          /\ tick' = t
          /\ call' = [op |-> "new", args |-> <<t>>]
    /\ pc' = "tick"
    /\ UNCHANGED <<rate, ret, iter>>

\* Tick::from_frames(frames, rate) at the float rate
Tick_from_frames_float ==
    /\ pc = "start"
    /\ \E frames \in FloatFrameSamples :
          \E r \in {from_frames_float(frames, rate.val)} :
              /\ r.exact
              /\ tick' = r.val
              /\ call' = [op |-> "from_frames", args |-> <<frames>>]
    /\ pc' = "tick"
    /\ UNCHANGED <<rate, ret, iter>>

\* Tick::from(value) for an f64 value
Tick_from_float ==
    /\ pc = "start"
    /\ rate.ty = "f64"
    /\ \E r \in {Tick_from_f64(rate.val)} :
          /\ r.exact
          /\ \E t \in r.vals : tick' = t
          /\ call' = [op |-> "from_f64", args |-> <<rate.val>>]
    /\ pc' = "tick"
    /\ UNCHANGED <<rate, ret, iter>>

\* tick.to_frames(rate) at the float rate
Tick_to_frames_float ==
    /\ pc = "tick"
    /\ \E r \in {to_frames_float(tick, rate.val)} :
          /\ r.exact
          /\ ret' = r.val
    /\ pc' = "frames"
    /\ UNCHANGED <<rate, call, tick, iter>>

\* tick * rhs for an f64 rhs
Tick_mul_float ==
    /\ pc = "tick"
    /\ rate.ty = "f64"
    /\ \E r \in {Tick_mul_f64(tick, rate.val)} :
          /\ r.exact
          /\ \E v \in r.vals : ret' = v
    /\ pc' = "scaled"
    /\ UNCHANGED <<rate, call, tick, iter>>

NextFloat ==
    \/ Tick_new_sixteenth
    \/ Tick_from_frames_float
    \/ Tick_from_float
    \/ Tick_to_frames_float
    \/ Tick_mul_float

SpecFloat == InitFloat /\ [][NextFloat]_vars

\* r is an integer nearest to n / d (d > 0)
Nearest(r, n, d) == ZLe(ZMul(Z(2), ZAbs(ZSub(ZMul(r, d), n))), d)

\* n / d lies exactly halfway between two integers
IsTie(n, d) == ZMul(Z(2), ZAbs(ZRem(n, d))) = d

\* r is the integer nearest to n / d, the neighbour away from zero on a tie
NearestTiesAway(r, n, d) ==
    /\ Nearest(r, n, d)
    /\ IsTie(n, d) => ZLt(ZAbs(n), ZAbs(ZMul(r, d)))

\* r is the integer nearest to n / d, the even neighbour on a tie
NearestTiesEven(r, n, d) ==
    /\ Nearest(r, n, d)
    /\ IsTie(n, d) => ZIsZero(ZRem(r, Z(2)))

\* C9 as stated: to_frames and from_frames at a floating-point rate round
\* the exact quotient to the nearest integer with ties to even, so that
\* Tick(TICKS_PER_SECOND) gives 2 frames at rate 2.5 and 0 frames at 0.5.
C9_TiesToEven ==
    /\ pc = "frames" =>
          NearestTiesEven(ret, ZMul(tick, rate.val.m),
                          ZMul(TICKS_PER_SECOND, ZPow2(rate.val.k)))
    /\ pc = "tick" /\ call.op = "from_frames" =>
          NearestTiesEven(tick,
                          ZMul(ZMul(call.args[1], TICKS_PER_SECOND), ZPow2(rate.val.k)),
                          rate.val.m)

\* C9, amended: to_frames and from_frames at a floating-point rate round the
\* exact quotient to the nearest integer with ties away from zero, which is
\* also the rounding of Tick * f64 and of From<f64>; Tick(TICKS_PER_SECOND)
\* gives 3 frames at rate 2.5 and 1 frame at rate 0.5.
C9_TiesAway ==
    /\ pc = "frames" =>
          NearestTiesAway(ret, ZMul(tick, rate.val.m),
                          ZMul(TICKS_PER_SECOND, ZPow2(rate.val.k)))
    /\ pc = "tick" /\ call.op = "from_frames" =>
          NearestTiesAway(tick,
                          ZMul(ZMul(call.args[1], TICKS_PER_SECOND), ZPow2(rate.val.k)),
                          rate.val.m)
    /\ pc = "scaled" =>
          NearestTiesAway(ret, ZMul(tick, rate.val.m), ZPow2(rate.val.k))
    /\ pc = "tick" /\ call.op = "from_f64" =>
          NearestTiesAway(tick, rate.val.m, ZPow2(rate.val.k))

\* one second at 2.5 frames per second has been converted to 3 frames
C9_Witness ==
    /\ pc = "frames"
    /\ tick = TICKS_PER_SECOND
    /\ rate.val = F64(TRUE, Dyadic(Z(5), 1))
    /\ ret = Z(3)

\* ------------------------------------------------------------------------
\* Conversions between Tick and Duration
\* ------------------------------------------------------------------------

\* durations drawn: the quarter seconds up to MaxSecs seconds
MaxSecs == 2
DurationSamples ==
    {Duration(Z(s), ZMul(Z(q), Z(250000000))) : s \in 0 .. MaxSecs, q \in 0 .. 3}

InitDuration ==
    /\ pc = "start"
    /\ rate = NoRate
    /\ call = NoCall
    /\ tick = Z(0)
    /\ ret = NoRet
    /\ iter = NoIter

\* Tick::new(t) with t a multiple of a sixteenth of a second, of either sign
Tick_new_secs ==
    /\ pc = "start"
    /\ \E t \in SixteenthTicks :
          /\ tick' = t
          /\ call' = [op |-> "new", args |-> <<t>>]
    /\ pc' = "tick"
    /\ UNCHANGED <<rate, ret, iter>>

\* Tick::from(duration)
From_Duration ==
    /\ pc = "start"
    /\ \E d \in DurationSamples :
          \E r \in {Tick_from_duration(d)} :
              /\ r.exact
              /\ tick' = r.val
              /\ call' = [op |-> "from_duration", args |-> <<d>>]
    /\ pc' = "tick"
    /\ UNCHANGED <<rate, ret, iter>>

\* Duration::from(tick): a panic ends the run
Into_Duration ==
    /\ pc = "tick"
    /\ \E r \in {Duration_from_tick(tick)} :
          /\ r.exact
          /\ ret' = r.out
          /\ pc' = IF r.out.panic THEN "panic" ELSE "duration"
    /\ UNCHANGED <<rate, call, tick, iter>>

NextDuration ==
    \/ Tick_new_secs
    \/ From_Duration
    \/ Into_Duration

SpecDuration == InitDuration /\ [][NextDuration]_vars

\* the nanoseconds of the duration d
TotalNanos(d) == ZAdd(ZMul(d.secs, NANOS_PER_SEC), d.nanos)

\* C10: converting any Tick, the negative ones included, to a Duration
\* produces a value and never panics; and Tick::from(d) is d in seconds
\* times TICKS_PER_SECOND, truncated toward zero.
C10_Total ==
    /\ pc \in {"duration", "panic"} => ~ret.panic
    /\ pc = "tick" /\ call.op = "from_duration" =>
          tick = ZDiv(ZMul(TotalNanos(call.args[1]), TICKS_PER_SECOND), NANOS_PER_SEC)

Init == InitTimecode

Next == NextTimecode

Spec == Init /\ [][Next]_vars

====
